---- MODULE Spec2Model ----
(***************************************************************************)
(* Model of the smart-crop backend: the sensor-data ingestion handlers     *)
(* (POST /api/sensor-data) of the three revisions of unified_backend.js,   *)
(* the weather descriptors, the air-quality tier and the reading store.    *)
(*                                                                         *)
(* JavaScript values are records [t, n, s]: t is the kind of the value,    *)
(* n its number (for a number or a numeric string), s its text (for a      *)
(* string).  Temperatures, humidities, gas indices and weather fields are  *)
(* whole numbers; latitudes and longitudes are in units of 1e-4 degree.    *)
(***************************************************************************)
EXTENDS Integers, Sequences, FiniteSets, TLC

\* ------------------------------------------------------------------ bounds
\* ingestion requests served in one behaviour of Spec
MaxIngest == 2
\* ingestion requests served in one behaviour of SpecEnrich
MaxEnrich == 1
\* the descriptors are applied to the temperatures -TempBelow .. MaxTemp
TempBelow == 2
MaxTemp == 37
\* and to the humidities 0 .. MaxHum
MaxHum == 90
\* ingestion requests served in one behaviour of SpecTier
MaxTierIngest == 1
\* ingestion requests served in one behaviour of SpecRead
MaxReadIngest == 2
\* calls of LocationService methods in one behaviour of SpecLoc
MaxLookups == 2
\* the payloads of SpecTier carry gas indices of 0 .. MaxGas
MaxGas == 801
\* registrations handled in SpecRegister, per request slot
MaxRegister == 2

\* ------------------------------------------------------- JavaScript values
Undef == [t |-> "undefined", n |-> 0, s |-> ""]
Null == [t |-> "null", n |-> 0, s |-> ""]
NaN == [t |-> "nan", n |-> 0, s |-> ""]
Num(k) == [t |-> "number", n |-> k, s |-> ""]
\* +Infinity (k = 1) and -Infinity (k = -1)
Inf(k) == [t |-> "inf", n |-> k, s |-> ""]
\* a string that is no decimal numeral ("", "abc", "Infinity")
Str(x) == [t |-> "string", n |-> 0, s |-> x]
\* a string that is the decimal numeral of k, such as "28"
NumStr(k, x) == [t |-> "numstr", n |-> k, s |-> x]
\* the empty array []
EmptyArray == [t |-> "array", n |-> 0, s |-> ""]

\* v == null
IsNullish(v) == v.t \in {"undefined", "null"}

\* the truthiness of v, as `||`, `&&` and `if` take it
Truthy(v) ==
    CASE v.t \in {"undefined", "null", "nan"} -> FALSE
      [] v.t = "number" -> v.n # 0
      [] v.t = "string" -> v.s # ""
      [] OTHER -> TRUE

\* a || b
Or(a, b) == IF Truthy(a) THEN a ELSE b

\* a ?? b
Coalesce(a, b) == IF IsNullish(a) THEN b ELSE a

\* Number(v)
ToNumber(v) ==
    CASE v.t = "undefined" -> NaN
      [] v.t = "null" -> Num(0)
      [] v.t = "string" ->
            IF v.s = "" THEN Num(0)
            ELSE IF v.s = "Infinity" THEN Inf(1)
            ELSE IF v.s = "-Infinity" THEN Inf(-1)
            ELSE NaN
      [] v.t = "numstr" -> Num(v.n)
      [] v.t = "array" -> Num(0)
      [] OTHER -> v

\* String(v), for the values an advisory text can be
JsString(v) ==
    CASE v.t = "string" -> v
      [] v.t = "numstr" -> Str(v.s)
      [] v.t = "array" -> Str("")
      [] v.t = "undefined" -> Str("undefined")
      [] v.t = "null" -> Str("null")
      [] v.t = "nan" -> Str("NaN")
      [] v.t = "inf" -> IF v.n > 0 THEN Str("Infinity") ELSE Str("-Infinity")
      [] OTHER -> Str("number")

\* v < k, for a number k: both sides go through ToNumber, NaN compares false
Lt(v, k) ==
    LET x == ToNumber(v)
    IN  \/ x.t = "number" /\ x.n < k
        \/ x.t = "inf" /\ x.n < 0

\* v > k
Gt(v, k) ==
    LET x == ToNumber(v)
    IN  \/ x.t = "number" /\ x.n > k
        \/ x.t = "inf" /\ x.n > 0

\* isNaN(v)
IsNaN(v) == ToNumber(v).t = "nan"

\* Number.isFinite(v): no coercion
IsFinite(v) == v.t = "number"

\* parseFloat(v): the leading numeral of String(v), NaN when there is none
parseFloat(v) ==
    CASE v.t = "number" -> v
      [] v.t = "numstr" -> Num(v.n)
      [] v.t = "inf" -> v
      [] v.t = "string" -> IF v.s = "Infinity" THEN Inf(1)
                           ELSE IF v.s = "-Infinity" THEN Inf(-1) ELSE NaN
      [] OTHER -> NaN

\* -------------------------------------------------------- weather descriptor
\* getWeatherDescription with the humidity rules tried before `temp < 35`
getWeatherDescriptionHumidFirst(temp, humidity) ==
    IF IsNullish(temp) \/ IsNullish(humidity) THEN "Unknown"
    ELSE IF Lt(temp, 15) THEN "Cold"
    ELSE IF Lt(temp, 25) THEN "Cool"
    ELSE IF Gt(humidity, 80) THEN "Humid"
    ELSE IF Lt(temp, 35) THEN "Warm"
    ELSE IF Lt(humidity, 30) THEN "Dry"
    ELSE "Pleasant"

\* getWeatherDescription of unified_backend.js
getWeatherDescription(temp, humidity) ==
    IF IsNullish(temp) \/ IsNullish(humidity) THEN "Unknown"
    ELSE IF Lt(temp, 15) THEN "Cold"
    ELSE IF Lt(temp, 25) THEN "Cool"
    ELSE IF Lt(temp, 35) THEN "Warm"
    ELSE IF Gt(humidity, 80) THEN "Humid"
    ELSE IF Lt(humidity, 30) THEN "Dry"
    ELSE "Pleasant"

\* SimpleWeatherService.getWeatherDescription, the revision with the isNaN guard
getWeatherDescriptionSimple(temp, humidity) ==
    IF IsNaN(temp) \/ IsNaN(humidity) THEN "Unknown"
    ELSE IF Lt(temp, 15) THEN "Cold"
    ELSE IF Lt(temp, 25) THEN "Cool"
    ELSE IF Lt(temp, 35) THEN "Warm"
    ELSE IF Gt(humidity, 80) THEN "Humid"
    ELSE IF Lt(humidity, 30) THEN "Dry"
    ELSE "Pleasant"

\* SimpleWeatherService.getWeatherDescription, the Render revision: no guard
getWeatherDescriptionRender(temp, humidity) ==
    IF Lt(temp, 15) THEN "Cold"
    ELSE IF Lt(temp, 25) THEN "Cool"
    ELSE IF Lt(temp, 35) THEN "Warm"
    ELSE IF Gt(humidity, 80) THEN "Humid"
    ELSE IF Lt(humidity, 30) THEN "Dry"
    ELSE "Pleasant"

\* the descriptor of each revision
Describe(d, temp, humidity) ==
    CASE d = "unified" -> getWeatherDescription(temp, humidity)
      [] d = "simple" -> getWeatherDescriptionSimple(temp, humidity)
      [] d = "render" -> getWeatherDescriptionRender(temp, humidity)

\* ----------------------------------------------------------- air-quality tier
\* the tier with inclusive upper limits (`<=` for `<`)
_getPollutionLevelInclusive(mq2) ==
    IF ~IsFinite(mq2) THEN 1
    ELSE IF mq2.n <= 200 THEN 1
    ELSE IF mq2.n <= 500 THEN 2
    ELSE IF mq2.n <= 800 THEN 3
    ELSE 4

_getPollutionLevelLocal(mq2) ==
    IF ~IsFinite(mq2) THEN 1
    ELSE IF mq2.n < 200 THEN 1
    ELSE IF mq2.n < 500 THEN 2
    ELSE IF mq2.n < 800 THEN 3
    ELSE 4

\* ------------------------------------------------------------ configuration
\* SCRS_LOCATIONS
SCRS_LOCATIONS ==
    { [id |-> "bengaluru", name |-> "Bengaluru", lat |-> 129716, lon |-> 775946],
      [id |-> "tumakuru", name |-> "Tumakuru", lat |-> 133409, lon |-> 771010],
      [id |-> "mysuru", name |-> "Mysuru", lat |-> 122958, lon |-> 766394],
      [id |-> "hassan", name |-> "Hassan", lat |-> 130072, lon |-> 760967],
      [id |-> "mangaluru", name |-> "Mangaluru", lat |-> 129141, lon |-> 748560],
      [id |-> "hubballi", name |-> "Hubballi", lat |-> 153647, lon |-> 751240],
      [id |-> "belagavi", name |-> "Belagavi", lat |-> 158497, lon |-> 744977],
      [id |-> "shivamogga", name |-> "Shivamogga", lat |-> 139299, lon |-> 755681],
      [id |-> "ballari", name |-> "Ballari", lat |-> 151394, lon |-> 769214],
      [id |-> "davanagere", name |-> "Davanagere", lat |-> 144669, lon |-> 759238] }

\* SCRS_LOCATIONS.find(x => x.id === id), as a set of at most one entry
FindLocation(id) == {x \in SCRS_LOCATIONS : x.id = id}

\* the location of the override revision when no listed location is selected
BengaluruDefault ==
    [city |-> Str("Bengaluru"), state |-> Str("Karnataka"), country |-> Str("India"),
     lat |-> Num(129716), lon |-> Num(775946)]

\* the location of a selected entry of SCRS_LOCATIONS
ChosenLoc(x) ==
    [city |-> Str(x.name), state |-> Str("Karnataka"), country |-> Str("India"),
     lat |-> Num(x.lat), lon |-> Num(x.lon)]

\* the location the override revision starts from, given the Settings document
OverrideLoc(sel) ==
    IF FindLocation(sel) # {}
    THEN ChosenLoc(CHOOSE x \in FindLocation(sel) : TRUE)
    ELSE BengaluruDefault

\* the location the IP revision starts from: the payload's lat and lon, each
\* replaced by the process default when it is null or undefined; e is
\* process.env, without LOCATION_CITY, LOCATION_STATE and LOCATION_COUNTRY
EnvLoc(e, lat, lon) ==
    [city |-> Str("Bengaluru"), state |-> Str("Karnataka"), country |-> Str("India"),
     lat |-> Coalesce(lat, parseFloat(Or(e.LOCATION_LAT, NumStr(129716, "12.9716")))),
     lon |-> Coalesce(lon, parseFloat(Or(e.LOCATION_LON, NumStr(775946, "77.5946"))))]

\* locationService.geoLocateIP(clientIp): LocationService declares no such
\* method, the call throws inside the try and the location stays as it was
geoLocateIP(l) == l

\* this.location of SimpleWeatherService
SimpleLocation ==
    [city |-> Str("Mumbai"), state |-> Str("Maharashtra"), country |-> Str("India"),
     lat |-> Num(190760), lon |-> Num(728777)]

\* --------------------------------------------------------- provider responses
\* no response yet
NoNom == [st |-> "none", city |-> Undef, town |-> Undef, village |-> Undef,
          state |-> Undef, country |-> Undef]
NoW == [st |-> "none", wind |-> Undef, pressure |-> Undef, uv |-> Undef, precip |-> Undef]
NoAi == [st |-> "none", text |-> Undef]
\* wx = {}
EmptyWx == [windSpeed |-> Undef, pressure |-> Undef, uvIndex |-> Undef, rainfall |-> Undef]
NoPayload == [sent |-> FALSE, temperature |-> Undef, humidity |-> Undef, rainfall |-> Undef,
              pollution_level |-> 0, lat |-> Undef, lon |-> Undef]
NoData == [none |-> TRUE]
NoRes == [status |-> 0, data |-> NoData]
NoCalls == [nominatim |-> 0, weather |-> 0, advisory |-> 0]
NoBody == [temperature |-> Undef, humidity |-> Undef, mq2 |-> Undef, rainfall |-> Undef,
           lat |-> Undef, lon |-> Undef]
NoLoc == [city |-> Undef, state |-> Undef, country |-> Undef, lat |-> Undef, lon |-> Undef]
NoCall == [fn |-> "none", d |-> "none", a |-> Undef, b |-> Undef, label |-> ""]

\* the reverse-geocoding step without the `|| loc.x` fallbacks and outside the try
RefineLocOverwrites(l, r) ==
    [l EXCEPT !.city = Or(r.city, Or(r.town, r.village)),
              !.state = r.state, !.country = r.country]

\* the reverse-geocoding step refining the city only
RefineLocCityOnly(l, r) ==
    IF r.st # "ok" THEN l
    ELSE [l EXCEPT !.city = Or(r.city, Or(r.town, Or(r.village, l.city)))]

\* the reverse-geocoding step: loc.city = a.city || a.town || a.village || loc.city ...
RefineLoc(l, r) ==
    IF r.st # "ok" THEN l
    ELSE [l EXCEPT !.city = Or(r.city, Or(r.town, Or(r.village, l.city))),
                   !.state = Or(r.state, l.state),
                   !.country = Or(r.country, l.country)]

\* the weather step of the override revision
WxOverride(r, rainfall) ==
    IF r.st # "ok"
    THEN [EmptyWx EXCEPT !.rainfall = ToNumber(Coalesce(rainfall, Num(0)))]
    ELSE [windSpeed |-> ToNumber(Or(r.wind, Num(0))),
          pressure |-> ToNumber(Or(r.pressure, Num(0))),
          uvIndex |-> ToNumber(Or(r.uv, Num(0))),
          rainfall |-> ToNumber(Coalesce(r.precip, Coalesce(rainfall, Num(0))))]

\* the weather step of the IP revision
WxIp(r, rainfall) ==
    IF r.st # "ok" THEN EmptyWx
    ELSE [windSpeed |-> r.wind, pressure |-> r.pressure, uvIndex |-> r.uv,
          rainfall |-> Or(r.precip, Or(rainfall, Num(0)))]

\* the advisory step: the text replaces the fallback only when it is truthy
AdvisoryDesc(fallback, r) ==
    IF r.st = "ok" /\ Truthy(r.text) THEN JsString(r.text) ELSE fallback

\* promptPayload
PromptPayload(b, l, x) ==
    [sent |-> TRUE,
     temperature |-> ToNumber(b.temperature),
     humidity |-> ToNumber(b.humidity),
     rainfall |-> ToNumber(Coalesce(x.rainfall, Num(0))),
     pollution_level |-> _getPollutionLevelLocal(ToNumber(b.mq2)),
     lat |-> l.lat, lon |-> l.lon]

\* ------------------------------------------------------------ reading store
\* mongoose's cast of a value to a Number path: NaN, a non-numeric string and
\* an array are cast errors
CastNumberOk(v) ==
    ~(v.t \in {"nan", "array"} \/ (v.t = "string" /\ ToNumber(v).t = "nan"))
CastNumber(v) ==
    CASE v.t = "numstr" -> Num(v.n)
      [] v.t = "string" -> IF v.s = "" THEN Null ELSE ToNumber(v)
      [] OTHER -> v

\* the document the override revision hands to Reading.create
DocOverride(b, l, x, desc) ==
    [temperature |-> ToNumber(b.temperature), humidity |-> ToNumber(b.humidity),
     mq2 |-> ToNumber(b.mq2), rainfall |-> x.rainfall, windSpeed |-> x.windSpeed,
     pressure |-> x.pressure, uvIndex |-> x.uvIndex, weatherDescription |-> desc,
     city |-> l.city, state |-> l.state, country |-> l.country,
     lat |-> l.lat, lon |-> l.lon]

\* the document the IP revision hands to Reading.create
DocIp(b, l, x) ==
    [temperature |-> ToNumber(b.temperature), humidity |-> ToNumber(b.humidity),
     mq2 |-> ToNumber(b.mq2),
     rainfall |-> ToNumber(Coalesce(x.rainfall, Num(0))),
     windSpeed |-> ToNumber(Coalesce(x.windSpeed, Num(0))),
     pressure |-> ToNumber(Coalesce(x.pressure, Num(0))),
     uvIndex |-> ToNumber(Coalesce(x.uvIndex, Num(0))),
     weatherDescription |->
         Str(getWeatherDescription(ToNumber(b.temperature), ToNumber(b.humidity))),
     city |-> l.city, state |-> l.state, country |-> l.country,
     lat |-> l.lat, lon |-> l.lon]

NumberPaths == {"temperature", "humidity", "mq2", "rainfall", "windSpeed", "pressure",
                "uvIndex", "lat", "lon"}
RequiredPaths == {"temperature", "humidity", "mq2"}

\* readingSchema: does the document validate
readingSchema(doc) ==
    /\ \A p \in NumberPaths : CastNumberOk(doc[p])
    /\ \A p \in RequiredPaths : ~IsNullish(CastNumber(doc[p]))

\* the stored reading: casts, the rainfall default and the createdAt timestamp
Reading(doc, at) ==
    [temperature |-> CastNumber(doc.temperature), humidity |-> CastNumber(doc.humidity),
     mq2 |-> CastNumber(doc.mq2),
     rainfall |-> IF doc.rainfall.t = "undefined" THEN Num(0) ELSE CastNumber(doc.rainfall),
     windSpeed |-> CastNumber(doc.windSpeed), pressure |-> CastNumber(doc.pressure),
     uvIndex |-> CastNumber(doc.uvIndex), weatherDescription |-> doc.weatherDescription,
     city |-> doc.city, state |-> doc.state, country |-> doc.country,
     lat |-> CastNumber(doc.lat), lon |-> CastNumber(doc.lon), createdAt |-> at]

\* generateMockWeatherData of the two revisions of SimpleWeatherService
generateMockWeatherData(v, b, rnd, at) ==
    LET temperature == IF v = "simple" THEN ToNumber(b.temperature) ELSE b.temperature
        humidity == IF v = "simple" THEN ToNumber(b.humidity) ELSE b.humidity
        mq2 == IF v = "simple" THEN ToNumber(b.mq2) ELSE b.mq2
    IN  [temperature |-> temperature, humidity |-> humidity, mq2 |-> mq2,
         rainfall |-> Num(rnd), windSpeed |-> Num(rnd + 2), pressure |-> Num(1003 + rnd),
         uvIndex |-> Num(2 + rnd),
         weatherDescription |-> Str(Describe(v, temperature, humidity)),
         city |-> SimpleLocation.city, state |-> SimpleLocation.state,
         country |-> SimpleLocation.country,
         latitude |-> SimpleLocation.lat, longitude |-> SimpleLocation.lon,
         timestamp |-> at]

\* ---------------------------------------------------------- location service
\* this.cacheExpiry, in milliseconds
cacheExpiry == 24 * 60 * 60 * 1000

\* process.env with LOCATION_LAT and LOCATION_LON unset, and set to Bengaluru
EnvUnset == [LOCATION_LAT |-> Undef, LOCATION_LON |-> Undef]
EnvBengaluru == [LOCATION_LAT |-> NumStr(129716, "12.9716"),
                 LOCATION_LON |-> NumStr(775946, "77.5946")]

\* a location without any field, and the fields a location can have
NoPlace == [lat |-> Undef, lon |-> Undef, city |-> Undef, country |-> Undef, state |-> Undef,
            countryCode |-> Undef, displayName |-> Undef, timezone |-> Undef,
            timestamp |-> Undef]

\* the final fallback of autoDetectLocation
MumbaiFallback ==
    [NoPlace EXCEPT !.lat = Num(190760), !.lon = Num(728777), !.city = Str("Mumbai"),
                    !.country = Str("India"), !.state = Str("Maharashtra"),
                    !.countryCode = Str("in"),
                    !.displayName = Str("Mumbai, Maharashtra, India")]

\* answers of ip-api.com: none yet, an error, {status: 'fail'}, {status: 'success', ...}
NoIp == [st |-> "none", status |-> Undef, lat |-> Undef, lon |-> Undef, city |-> Undef,
         country |-> Undef, regionName |-> Undef, countryCode |-> Undef, timezone |-> Undef]
IpFail == [NoIp EXCEPT !.st = "fail"]
IpRefused == [NoIp EXCEPT !.st = "ok", !.status = Str("fail")]
IpPune == [st |-> "ok", status |-> Str("success"), lat |-> Num(185204), lon |-> Num(738567),
           city |-> Str("Pune"), country |-> Str("India"), regionName |-> Str("Maharashtra"),
           countryCode |-> Str("IN"), timezone |-> Str("Asia/Kolkata")]
IpAnswers == {IpFail, IpPune}

\* answers of nominatim (the place of /reverse, the first place of /search):
\* st is "fail" for an error or a timeout, "empty" for no data, "ok" for a place
NoGeo == [st |-> "none", lat |-> Undef, lon |-> Undef, city |-> Undef, town |-> Undef,
          village |-> Undef, country |-> Undef, state |-> Undef, county |-> Undef,
          country_code |-> Undef, display_name |-> Undef]
GeoFail == [NoGeo EXCEPT !.st = "fail"]
GeoEmpty == [NoGeo EXCEPT !.st = "empty"]
GeoMysuru == [NoGeo EXCEPT !.st = "ok", !.lat = NumStr(122958, "12.2958"),
                           !.lon = NumStr(766394, "76.6394"), !.city = Str("Mysuru"),
                           !.country = Str("India"), !.state = Str("Karnataka"),
                           !.country_code = Str("in"),
                           !.display_name = Str("Mysuru, Karnataka, India")]
\* a place with a village and a county only
GeoHamlet == [NoGeo EXCEPT !.st = "ok", !.lat = NumStr(122001, "12.2001"),
                           !.lon = NumStr(766002, "76.6002"), !.village = Str("Bilikere"),
                           !.county = Str("Hunsur")]
GeoAnswers == {GeoFail, GeoEmpty, GeoMysuru, GeoHamlet}

\* String.prototype.toLowerCase, on the city names of the model
toLowerCase(x) ==
    CASE x = "Mysuru" -> "mysuru"
      [] x = "MYSURU" -> "mysuru"
      [] x = "Pune" -> "pune"
      [] OTHER -> x

\* the cache keys `coords_${lat}_${lon}` and `city_${cityName.toLowerCase()}`
CoordsKey(lat, lon) == <<"coords", lat, lon>>
CityKey(cityName) == <<"city", toLowerCase(cityName)>>

\* new Map()
EmptyMap == <<>>

\* the location getLocationFromCoords builds from a place
PlaceFromCoords(data) ==
    [NoPlace EXCEPT !.lat = parseFloat(data.lat), !.lon = parseFloat(data.lon),
                    !.city = Or(data.city, Or(data.town, Or(data.village, Str("Unknown")))),
                    !.country = Or(data.country, Str("Unknown")),
                    !.state = Or(data.state, Or(data.county, Str("Unknown"))),
                    !.countryCode = Or(data.country_code, Str("unknown")),
                    !.displayName = data.display_name]

\* the location searchLocationByCity builds from the first place
PlaceFromCity(data, cityName) ==
    [PlaceFromCoords(data) EXCEPT
        !.city = Or(data.city, Or(data.town, Or(data.village, Str(cityName))))]

\* the location getLocationFromIP builds from a success answer
PlaceFromIP(data) ==
    [NoPlace EXCEPT !.lat = parseFloat(data.lat), !.lon = parseFloat(data.lon),
                    !.city = data.city, !.country = data.country,
                    !.state = data.regionName, !.countryCode = data.countryCode,
                    !.timezone = data.timezone]

\* the callers of the service that may have a call in progress at the same time
Callers == {1, 2}

\* no call of the service in progress
NoLookup == [fn |-> "none", pc |-> "idle", key |-> <<>>, cityName |-> "", t0 |-> 0,
             calls |-> 0, caller |-> 0]
NoLookups == [c \in Callers |-> NoLookup]

\* no weather summary waits for the advisory service
NoSummary ==
    [pc |-> "idle",
     payload |-> [city |-> Undef, state |-> Undef, country |-> Undef, lat |-> Undef,
                  lon |-> Undef, temperature |-> Undef, humidity |-> Undef,
                  rainfall |-> Undef, windSpeed |-> Undef, pressure |-> Undef,
                  uvIndex |-> Undef, language |-> Undef]]

\* ------------------------------------------------------------------ accounts
\* no registration in a slot
NoReg == [pc |-> "idle", username |-> Undef, password |-> Undef, email |-> Undef,
          exists |-> FALSE, status |-> 0, n |-> 0]
RegSlots == {1, 2}
NoRegs == [q \in RegSlots |-> NoReg]

\* ---------------------------------------------------------------- read side
\* .limit(50) of GET /sensor_data, and getWeatherHistory(50)
HistoryLimit == 50

\* no answer of a read endpoint, or of POST /scrs/override_location, yet
NoStats == [avgTemperature |-> Undef, avgHumidity |-> Undef, totalReadings |-> Undef]
NoQuery == [ep |-> "none", status |-> 0, data |-> <<>>, stats |-> NoStats, text |-> Undef,
            locationId |-> ""]

\* the order of .sort({createdAt: -1}); readings with the same createdAt come
\* in an order the database chooses: the first inserted first, or last
NewerFirst(a, b) == a.createdAt > b.createdAt
NewerLast(a, b) == a.createdAt >= b.createdAt

\* a sort that leaves the readings in insertion order
SortByInsertion(s, tie) == s

\* .sort({createdAt: -1}); tie is "first" or "last"
SortByCreatedAt(s, tie) ==
    IF tie = "first" THEN SortSeq(s, NewerFirst) ELSE SortSeq(s, NewerLast)

\* .limit(n)
Limit(s, n) == SubSeq(s, 1, IF Len(s) < n THEN Len(s) ELSE n)

\* {$sum: '$f'} over the readings of s
RECURSIVE SumOf(_, _, _)
SumOf(s, f, n) == IF n = 0 THEN 0 ELSE s[n][f].n + SumOf(s, f, n - 1)

\* {$avg: '$f'}: the mean as the fraction num / den
Avg(s, f) == [t |-> "fraction", num |-> SumOf(s, f, Len(s)), den |-> Len(s)]

\* the $group stage over the collection: no group for an empty collection
Aggregate(s) ==
    IF s = <<>> THEN NoStats
    ELSE [avgTemperature |-> Avg(s, "temperature"), avgHumidity |-> Avg(s, "humidity"),
          totalReadings |-> Num(Len(s))]

\* SimpleWeatherService.getWeatherStats
getWeatherStats ==
    [avgTemperature |-> [t |-> "fraction", num |-> 285, den |-> 10],
     avgHumidity |-> [t |-> "fraction", num |-> 652, den |-> 10],
     totalReadings |-> Num(100)]

\* SimpleWeatherService.getWeatherHistory(limit): one draw for every reading
getWeatherHistory(v, limit, rnd, at) ==
    [i \in 1..limit |->
        generateMockWeatherData(v,
            [temperature |-> Num(20 + rnd), humidity |-> Num(40 + rnd),
             mq2 |-> Num(100 + rnd)], rnd, at)]

\* ---------------------------------------------------------------------- state
VARIABLES
    variant,        \* the revision of the backend that runs
    advisoryUrl,    \* is ADVISORY_API_URL set
    settings,       \* selectedLocationId of the Settings document, "" when there is none
    store,          \* the Reading collection, in insertion order
    now,            \* the clock
    pc,             \* where the ingestion handler stands
    body,           \* req.body of the request being handled
    chosen,         \* the id of the listed location the handler found selected, or ""
    loc, wx, aiWeatherDesc, promptPayload,   \* the handler's locals
    nom, w, ai,     \* the providers' answers to this request
    db,             \* did the database answer this request's last operation
    calls,          \* outbound calls issued for this request, per provider
    res,            \* the response to this request
    nOk, nBad, nErr,    \* responses sent so far: success, 400, 500
    call,           \* a direct application of a descriptor
    ipApi,          \* what ip-api.com answers for the client's address
    env,            \* process.env.LOCATION_LAT and LOCATION_LON
    locationCache,  \* LocationService.locationCache
    lookup,         \* per caller, its call of a LocationService method in progress
    resolved,       \* the calls of LocationService methods that ended, in order
    query,          \* the last answer of a read endpoint or of POST /scrs/override_location
    users,          \* the User collection, in insertion order
    reg,            \* per request slot, the POST /register in progress or answered
    summary         \* the GET /scrs/weather_summary that waits for the advisory service

vars == <<variant, advisoryUrl, ipApi, env, settings, store, now, pc, body, chosen, loc, wx,
          aiWeatherDesc, promptPayload, nom, w, ai, db, calls, res, nOk, nBad, nErr, call,
          locationCache, lookup, resolved, query, users, reg, summary>>

handler == <<pc, body, chosen, loc, wx, aiWeatherDesc, promptPayload, nom, w, ai, db, calls, res>>
counters == <<nOk, nBad, nErr>>
config == <<variant, advisoryUrl, ipApi, env>>
service == <<locationCache, lookup, resolved>>
accounts == <<users, reg>>

Variants == {"override", "ip", "simple", "render"}

Init ==
    /\ variant \in Variants
    /\ advisoryUrl \in (IF variant = "override" THEN BOOLEAN ELSE {FALSE})
    /\ ipApi \in (IF variant = "ip" THEN IpAnswers ELSE {IpFail})
    /\ env = EnvUnset
    /\ locationCache = EmptyMap /\ lookup = NoLookups /\ resolved = <<>>
    /\ query = NoQuery
    /\ users = <<>> /\ reg = NoRegs /\ summary = NoSummary
    /\ settings = ""
    /\ store = <<>>
    /\ now = 0
    /\ pc = "idle"
    /\ body = NoBody
    /\ chosen = ""
    /\ loc = NoLoc
    /\ wx = EmptyWx
    /\ aiWeatherDesc = Undef
    /\ promptPayload = NoPayload
    /\ nom = NoNom /\ w = NoW /\ ai = NoAi
    /\ db = "none"
    /\ calls = NoCalls
    /\ res = NoRes
    /\ nOk = 0 /\ nBad = 0 /\ nErr = 0
    /\ call = NoCall

\* a presence check that forgets mq2
MissingRequiredSkipsMq2(b) == IsNullish(b.temperature) \/ IsNullish(b.humidity)

\* the presence check of every revision of the handler
MissingRequired(b) ==
    IsNullish(b.temperature) \/ IsNullish(b.humidity) \/ IsNullish(b.mq2)

\* POST /scrs/override_location that selects the Bengaluru entry whatever the id
OverrideLocationFirstEntry(id, ok) ==
    /\ variant = "override"
    /\ settings' = IF ok THEN "bengaluru" ELSE settings
    /\ query' = [NoQuery EXCEPT !.ep = "override", !.locationId = id,
                                !.status = IF ok THEN 200 ELSE 500]
    /\ UNCHANGED <<config, accounts, summary, store, now, handler, counters, call, service>>

\* POST /scrs/override_location: an id that is not listed is rejected (400) and
\* the Settings document stays as it is; ok tells whether Settings.updateOne
\* succeeds
OverrideLocation(id, ok) ==
    /\ variant = "override"
    /\ settings' = IF FindLocation(id) # {} /\ ok THEN id ELSE settings
    /\ query' = [NoQuery EXCEPT !.ep = "override", !.locationId = id,
                                !.status = IF FindLocation(id) = {} THEN 400
                                           ELSE IF ok THEN 200 ELSE 500]
    /\ UNCHANGED <<config, accounts, summary, store, now, handler, counters, call, service>>

\* POST /api/sensor-data arrives: the presence check, then the synchronous
\* code up to the first await
Receive(b, max) ==
    /\ pc \in {"idle", "done"}
    /\ nOk + nBad + nErr < max
    /\ body' = b
    /\ chosen' = ""
    /\ wx' = EmptyWx /\ aiWeatherDesc' = Undef /\ promptPayload' = NoPayload
    /\ nom' = NoNom /\ w' = NoW /\ ai' = NoAi /\ db' = "none"
    /\ IF MissingRequired(b)
       THEN /\ pc' = "done"
            /\ res' = [status |-> 400, data |-> NoData]
            /\ nBad' = nBad + 1
            /\ loc' = NoLoc
            /\ calls' = NoCalls
            /\ UNCHANGED <<nOk, nErr>>
       ELSE /\ res' = NoRes
            /\ UNCHANGED counters
            /\ CASE variant = "override" ->
                      pc' = "settings" /\ loc' = NoLoc /\ calls' = NoCalls
                 [] variant = "ip" ->
                      /\ pc' = "nominatim"
                      /\ loc' = IF IsNullish(b.lat) \/ IsNullish(b.lon)
                                THEN geoLocateIP(EnvLoc(env, b.lat, b.lon))
                                ELSE EnvLoc(env, b.lat, b.lon)
                      /\ calls' = [NoCalls EXCEPT !.nominatim = 1]
                 [] OTHER ->
                      pc' = "mock" /\ loc' = NoLoc /\ calls' = NoCalls
    /\ UNCHANGED <<config, accounts, summary, settings, store, now, call, service, query>>

\* Settings.findOne() answers (override revision); the reverse-geocoding call goes out
ReadSettings(ok) ==
    /\ pc = "settings"
    /\ db' = IF ok THEN "ok" ELSE "fail"
    /\ chosen' = IF ok /\ FindLocation(settings) # {} THEN settings ELSE ""
    /\ IF ok
       THEN /\ loc' = OverrideLoc(settings)
            /\ calls' = [calls EXCEPT !.nominatim = @ + 1]
            /\ pc' = "nominatim"
            /\ UNCHANGED <<res, counters>>
       ELSE /\ pc' = "done"
            /\ res' = [status |-> 500, data |-> NoData]
            /\ nErr' = nErr + 1
            /\ UNCHANGED <<loc, calls, nOk, nBad>>
    /\ UNCHANGED <<config, accounts, summary, settings, store, now, body, wx, aiWeatherDesc, promptPayload,
                   nom, w, ai, call, service, query>>

\* the timeout option of the outbound calls of the ingestion handler, in
\* milliseconds; 0, the default of axios, is no timeout
timeout(v, provider) ==
    IF v = "override" THEN (IF provider = "advisory" THEN 15000 ELSE 6000) ELSE 0

\* the reverse-geocoding call ends (answer, error or timeout) and the weather
\* call goes out; a call without a timeout that the provider never answers
\* never ends
ReverseGeocode(r) ==
    /\ pc = "nominatim"
    /\ nom.st # "silent"
    /\ nom' = r
    /\ IF r.st = "silent" /\ timeout(variant, "nominatim") = 0
       THEN UNCHANGED <<loc, calls, pc>>
       ELSE /\ loc' = RefineLoc(loc, r)
            /\ calls' = [calls EXCEPT !.weather = @ + 1]
            /\ pc' = "weather"
    /\ UNCHANGED <<config, accounts, summary, settings, store, now, body, chosen, wx, aiWeatherDesc, promptPayload,
                   w, ai, db, res, counters, call, service, query>>

\* the weather step that sends the advisory request and goes on to
\* Reading.create without waiting for its answer
FetchWeatherNoWait(r) ==
    /\ pc = "weather"
    /\ w.st # "silent"
    /\ w' = r
    /\ IF r.st = "silent" /\ timeout(variant, "weather") = 0
       THEN UNCHANGED <<wx, aiWeatherDesc, promptPayload, calls, pc>>
       ELSE IF variant = "override"
       THEN LET x == WxOverride(r, body.rainfall)
            IN  /\ wx' = x
                /\ aiWeatherDesc' = Str(getWeatherDescription(ToNumber(body.temperature),
                                                              ToNumber(body.humidity)))
                /\ pc' = "persist"
                /\ IF advisoryUrl
                   THEN /\ promptPayload' = PromptPayload(body, loc, x)
                        /\ calls' = [calls EXCEPT !.advisory = @ + 1]
                   ELSE UNCHANGED <<promptPayload, calls>>
       ELSE /\ wx' = WxIp(r, body.rainfall)
            /\ pc' = "persist"
            /\ UNCHANGED <<aiWeatherDesc, promptPayload, calls>>
    /\ UNCHANGED <<config, accounts, summary, settings, store, now, body, chosen, loc, nom, ai, db, res,
                   counters, call, service, query>>

\* the weather call ends; the override revision computes the fallback description
\* and, with ADVISORY_API_URL set, sends the advisory request; then Reading.create
FetchWeather(r) ==
    /\ pc = "weather"
    /\ w.st # "silent"
    /\ w' = r
    /\ IF r.st = "silent" /\ timeout(variant, "weather") = 0
       THEN UNCHANGED <<wx, aiWeatherDesc, promptPayload, calls, pc>>
       ELSE IF variant = "override"
       THEN LET x == WxOverride(r, body.rainfall)
            IN  /\ wx' = x
                /\ aiWeatherDesc' = Str(getWeatherDescription(ToNumber(body.temperature),
                                                              ToNumber(body.humidity)))
                /\ IF advisoryUrl
                   THEN /\ promptPayload' = PromptPayload(body, loc, x)
                        /\ calls' = [calls EXCEPT !.advisory = @ + 1]
                        /\ pc' = "advisory"
                   ELSE /\ pc' = "persist"
                        /\ UNCHANGED <<promptPayload, calls>>
       ELSE /\ wx' = WxIp(r, body.rainfall)
            /\ pc' = "persist"
            /\ UNCHANGED <<aiWeatherDesc, promptPayload, calls>>
    /\ UNCHANGED <<config, accounts, summary, settings, store, now, body, chosen, loc, nom, ai, db, res, counters,
                   call, service, query>>

\* the advisory call ends (override revision)
Advisory(r) ==
    /\ pc = "advisory"
    /\ ai' = r
    /\ aiWeatherDesc' = AdvisoryDesc(aiWeatherDesc, r)
    /\ pc' = "persist"
    /\ UNCHANGED <<config, accounts, summary, settings, store, now, body, chosen, loc, wx, promptPayload, nom, w,
                   db, calls, res, counters, call, service, query>>

\* the document of the revision that runs
Doc == IF variant = "override" THEN DocOverride(body, loc, wx, aiWeatherDesc)
       ELSE DocIp(body, loc, wx)

\* Persist with the error of Reading.create swallowed: success is answered anyway
PersistSwallowsError(dbOk) ==
    /\ pc = "persist"
    /\ pc' = "done"
    /\ db' = IF dbOk THEN "ok" ELSE "fail"
    /\ res' = [status |-> 200, data |-> Reading(Doc, now)]
    /\ nOk' = nOk + 1
    /\ store' = IF dbOk /\ readingSchema(Doc) THEN Append(store, Reading(Doc, now)) ELSE store
    /\ UNCHANGED <<config, accounts, summary, settings, now, body, chosen, loc, wx, aiWeatherDesc, promptPayload,
                   nom, w, ai, calls, nBad, nErr, call, service, query>>

\* Persist as an upsert: the new reading takes the place of the last one
PersistOverwrites(dbOk) ==
    /\ pc = "persist"
    /\ pc' = "done"
    /\ db' = IF dbOk THEN "ok" ELSE "fail"
    /\ IF dbOk /\ readingSchema(Doc)
       THEN /\ store' = IF store = <<>> THEN <<Reading(Doc, now)>>
                        ELSE [store EXCEPT ![Len(store)] = Reading(Doc, now)]
            /\ res' = [status |-> 200, data |-> Reading(Doc, now)]
            /\ nOk' = nOk + 1
            /\ UNCHANGED <<nBad, nErr>>
       ELSE /\ res' = [status |-> 500, data |-> NoData]
            /\ nErr' = nErr + 1
            /\ UNCHANGED <<store, nOk, nBad>>
    /\ UNCHANGED <<config, accounts, summary, settings, now, body, chosen, loc, wx, aiWeatherDesc, promptPayload,
                   nom, w, ai, calls, call, service, query>>

\* Reading.create ends and the response is sent
Persist(dbOk) ==
    /\ pc = "persist"
    /\ pc' = "done"
    /\ db' = IF dbOk THEN "ok" ELSE "fail"
    /\ IF dbOk /\ readingSchema(Doc)
       THEN /\ store' = Append(store, Reading(Doc, now))
            /\ res' = [status |-> 200, data |-> Reading(Doc, now)]
            /\ nOk' = nOk + 1
            /\ UNCHANGED <<nBad, nErr>>
       ELSE /\ res' = [status |-> 500, data |-> NoData]
            /\ nErr' = nErr + 1
            /\ UNCHANGED <<store, nOk, nBad>>
    /\ UNCHANGED <<config, accounts, summary, settings, now, body, chosen, loc, wx, aiWeatherDesc, promptPayload,
                   nom, w, ai, calls, call, service, query>>

\* weatherService.updateSensorDataWithWeather ends and the response is sent
\* (SimpleWeatherService revisions): nothing is stored
MockWeather(rnd) ==
    /\ pc = "mock"
    /\ pc' = "done"
    /\ res' = [status |-> 200, data |-> generateMockWeatherData(variant, body, rnd, now)]
    /\ nOk' = nOk + 1
    /\ UNCHANGED <<config, accounts, summary, settings, store, now, body, chosen, loc, wx, aiWeatherDesc,
                   promptPayload, nom, w, ai, db, calls, nBad, nErr, call, service, query>>

\* ------------------------------------------------ LocationService methods
\* the clock runs for two cache lifetimes
Horizon == 2 * cacheExpiry

\* the clock advances by d milliseconds, up to h; it is read just before and
\* at the multiples of the cache expiry
Tick(d, h) ==
    /\ now + d <= h
    /\ (now + d) % cacheExpiry \in {0, cacheExpiry - 1}
    /\ now' = now + d
    /\ UNCHANGED <<config, accounts, summary, settings, store, handler, counters, call, service, query>>

\* the cache test with an entry still fresh at the very end of its lifetime
CacheHitInclusive(cache, key, at) ==
    key \in DOMAIN cache /\ at - cache[key].timestamp.n <= cacheExpiry

\* locationCache.has(key) && Date.now() - cached.timestamp < this.cacheExpiry
CacheHit(cache, key, at) ==
    key \in DOMAIN cache /\ at - cache[key].timestamp.n < cacheExpiry

\* a cache write that leaves an entry that is there as it is
CacheSetKeepsFirst(cache, key, location, at) ==
    IF key \in DOMAIN cache THEN cache
    ELSE [k \in DOMAIN cache \cup {key} |->
            IF k = key THEN [location EXCEPT !.timestamp = Num(at)] ELSE cache[k]]

\* locationCache.set(key, {...location, timestamp: Date.now()})
CacheSet(cache, key, location, at) ==
    [k \in DOMAIN cache \cup {key} |->
        IF k = key THEN [location EXCEPT !.timestamp = Num(at)] ELSE cache[k]]

\* a call that ended: what it was, when it started and ended, the outbound
\* calls it issued, how the last of them ended ("none" without one), and what
\* the call returned or that it threw
Ended(l, at, ans, out, ret) ==
    [fn |-> l.fn, key |-> l.key, t0 |-> l.t0, t1 |-> at, calls |-> l.calls,
     ans |-> ans, out |-> out, ret |-> ret, caller |-> l.caller]

\* the start of getLocationFromCoords(lat, lon) within the call l, whose last
\* outbound call so far ended as ans ("none" without one): the cached location
\* is returned, or the request to /reverse goes out
EnterCoords(l, ans, lat, lon) ==
    LET key == CoordsKey(lat, lon)
        m == [l EXCEPT !.key = key]
    IN  IF CacheHit(locationCache, key, now)
        THEN /\ lookup' = [lookup EXCEPT ![l.caller] = NoLookup]
             /\ resolved' = Append(resolved, Ended(m, now, ans, "return", locationCache[key]))
        ELSE /\ lookup' = [lookup EXCEPT ![l.caller] = [m EXCEPT !.pc = "reverse", !.calls = @ + 1]]
             /\ UNCHANGED resolved

\* getLocationFromCoords(lat, lon) is called
StartCoords(c, lat, lon) ==
    /\ lookup[c].pc = "idle" /\ Len(resolved) < MaxLookups
    /\ EnterCoords([NoLookup EXCEPT !.fn = "coords", !.t0 = now, !.caller = c], "none",
                   lat, lon)
    /\ UNCHANGED <<config, accounts, summary, settings, store, now, handler, counters, call, locationCache,
                   query>>

\* the request to /reverse ends: a place is cached and returned; without one
\* getLocationFromCoords throws, and autoDetectLocation returns its final fallback
ReverseAnswer(c, r) ==
    /\ lookup[c].pc = "reverse"
    /\ lookup' = [lookup EXCEPT ![c] = NoLookup]
    /\ IF r.st = "ok"
       THEN /\ locationCache' = CacheSet(locationCache, lookup[c].key, PlaceFromCoords(r), now)
            /\ resolved' = Append(resolved, Ended(lookup[c], now, r.st, "return", PlaceFromCoords(r)))
       ELSE /\ UNCHANGED locationCache
            /\ resolved' = Append(resolved,
                    IF lookup[c].fn = "auto"
                    THEN Ended(lookup[c], now, r.st, "return", MumbaiFallback)
                    ELSE Ended(lookup[c], now, r.st, "throw", NoPlace))
    /\ UNCHANGED <<config, accounts, summary, settings, store, now, handler, counters, call, query>>

\* searchLocationByCity(cityName) is called
StartCity(c, cityName) ==
    /\ lookup[c].pc = "idle" /\ Len(resolved) < MaxLookups
    /\ LET key == CityKey(cityName)
           l == [NoLookup EXCEPT !.fn = "city", !.key = key, !.cityName = cityName,
                                 !.t0 = now, !.caller = c]
       IN  IF CacheHit(locationCache, key, now)
           THEN /\ lookup' = [lookup EXCEPT ![c] = NoLookup]
                /\ resolved' = Append(resolved, Ended(l, now, "none", "return", locationCache[key]))
           ELSE /\ lookup' = [lookup EXCEPT ![c] = [l EXCEPT !.pc = "search", !.calls = @ + 1]]
                /\ UNCHANGED resolved
    /\ UNCHANGED <<config, accounts, summary, settings, store, now, handler, counters, call, locationCache,
                   query>>

\* the request to /search ends: the first place is cached and returned; an
\* error or an empty list makes searchLocationByCity throw
SearchAnswer(c, r) ==
    /\ lookup[c].pc = "search"
    /\ lookup' = [lookup EXCEPT ![c] = NoLookup]
    /\ IF r.st = "ok"
       THEN LET location == PlaceFromCity(r, lookup[c].cityName)
            IN  /\ locationCache' = CacheSet(locationCache, lookup[c].key, location, now)
                /\ resolved' = Append(resolved, Ended(lookup[c], now, r.st, "return", location))
       ELSE /\ UNCHANGED locationCache
            /\ resolved' = Append(resolved, Ended(lookup[c], now, r.st, "throw", NoPlace))
    /\ UNCHANGED <<config, accounts, summary, settings, store, now, handler, counters, call, query>>

\* getLocationFromIP() (fn = "ip") or autoDetectLocation() (fn = "auto") is
\* called: the request to ip-api.com goes out
StartIP(c, fn) ==
    /\ lookup[c].pc = "idle" /\ Len(resolved) < MaxLookups
    /\ lookup' = [lookup EXCEPT ![c] = [NoLookup EXCEPT !.fn = fn, !.pc = "ipapi", !.t0 = now,
                                                   !.calls = 1, !.caller = c]]
    /\ UNCHANGED <<config, accounts, summary, settings, store, now, handler, counters, call, locationCache,
                   resolved, query>>

\* the request to ip-api.com ends: on success the location is returned; on any
\* other outcome getLocationFromIP throws, and autoDetectLocation goes on with
\* getLocationFromCoords(defaultLat, defaultLon)
IpAnswer(c, r) ==
    /\ lookup[c].pc = "ipapi"
    /\ IF r.st = "ok" /\ r.status = Str("success")
       THEN /\ lookup' = [lookup EXCEPT ![c] = NoLookup]
            /\ resolved' = Append(resolved, Ended(lookup[c], now, r.st, "return", PlaceFromIP(r)))
       ELSE IF lookup[c].fn = "ip"
       THEN /\ lookup' = [lookup EXCEPT ![c] = NoLookup]
            /\ resolved' = Append(resolved, Ended(lookup[c], now, r.st, "throw", NoPlace))
       ELSE EnterCoords(lookup[c], r.st, parseFloat(Or(env.LOCATION_LAT, Num(190760))),
                        parseFloat(Or(env.LOCATION_LON, Num(728777))))
    /\ UNCHANGED <<config, accounts, summary, settings, store, now, handler, counters, call, locationCache,
                   query>>

\* clearCache()
ClearCache(c) ==
    /\ lookup[c].pc = "idle" /\ Len(resolved) < MaxLookups
    /\ locationCache # EmptyMap
    /\ locationCache' = EmptyMap
    /\ resolved' = Append(resolved,
            Ended([NoLookup EXCEPT !.fn = "clear", !.t0 = now, !.caller = c], now, "none", "return", NoPlace))
    /\ UNCHANGED <<config, accounts, summary, settings, store, now, handler, counters, call, lookup, query>>

\* ------------------------------------------------------------ read endpoints
DbBacked == variant \in {"override", "ip"}

\* GET /sensor_data/latest
GetLatest(ok, tie, rnd) ==
    /\ query' =
          IF ~DbBacked
          THEN [NoQuery EXCEPT !.ep = "latest", !.status = 200,
                               !.data = getWeatherHistory(variant, 1, rnd, now)]
          ELSE IF ~ok THEN [NoQuery EXCEPT !.ep = "latest", !.status = 500]
          ELSE IF store = <<>> THEN [NoQuery EXCEPT !.ep = "latest", !.status = 404]
          ELSE [NoQuery EXCEPT !.ep = "latest", !.status = 200,
                               !.data = Limit(SortByCreatedAt(store, tie), 1)]
    /\ UNCHANGED <<config, accounts, summary, settings, store, now, handler, counters, call, service>>

\* GET /sensor_data
GetRecent(ok, tie, rnd) ==
    /\ query' =
          IF ~DbBacked
          THEN [NoQuery EXCEPT !.ep = "recent", !.status = 200,
                               !.data = getWeatherHistory(variant, HistoryLimit, rnd, now)]
          ELSE IF ~ok THEN [NoQuery EXCEPT !.ep = "recent", !.status = 500]
          ELSE [NoQuery EXCEPT !.ep = "recent", !.status = 200,
                               !.data = Limit(SortByCreatedAt(store, tie), HistoryLimit)]
    /\ UNCHANGED <<config, accounts, summary, settings, store, now, handler, counters, call, service>>

\* GET /sensor_data/stats
GetStats(ok) ==
    /\ query' =
          IF ~DbBacked
          THEN [NoQuery EXCEPT !.ep = "stats", !.status = 200, !.stats = getWeatherStats]
          ELSE IF ~ok THEN [NoQuery EXCEPT !.ep = "stats", !.status = 500]
          ELSE LET stats == Aggregate(store)
               IN  [NoQuery EXCEPT !.ep = "stats", !.status = 200,
                       !.stats = [avgTemperature |-> Coalesce(stats.avgTemperature, Num(0)),
                                  avgHumidity |-> Coalesce(stats.avgHumidity, Num(0)),
                                  totalReadings |-> Coalesce(stats.totalReadings, Num(0))]]
    /\ UNCHANGED <<config, accounts, summary, settings, store, now, handler, counters, call, service>>

\* the payload of GET /scrs/weather_summary for the advisory service
SummaryPayload(latest, language) ==
    [city |-> latest.city, state |-> latest.state, country |-> latest.country,
     lat |-> latest.lat, lon |-> latest.lon,
     temperature |-> latest.temperature, humidity |-> latest.humidity,
     rainfall |-> Coalesce(latest.rainfall, Num(0)),
     windSpeed |-> Coalesce(latest.windSpeed, Num(0)),
     pressure |-> Coalesce(latest.pressure, Num(0)),
     uvIndex |-> Coalesce(latest.uvIndex, Num(0)),
     language |-> JsString(Or(language, Str("en")))]

\* GET /scrs/weather_summary (override revision): Reading.findOne answers;
\* without a reading 404; with ADVISORY_API_URL set the latest reading goes
\* to the advisory service and the handler waits for it, otherwise the
\* response is sent with the default text
WeatherSummary(ok, tie, language) ==
    /\ variant = "override"
    /\ summary.pc = "idle"
    /\ IF ok /\ store # <<>> /\ advisoryUrl
       THEN /\ summary' = [pc |-> "advisory",
                           payload |-> SummaryPayload(SortByCreatedAt(store, tie)[1],
                                                      language)]
            /\ UNCHANGED query
       ELSE /\ query' =
                  IF ~ok THEN [NoQuery EXCEPT !.ep = "summary", !.status = 500]
                  ELSE IF store = <<>> THEN [NoQuery EXCEPT !.ep = "summary", !.status = 404]
                  ELSE [NoQuery EXCEPT !.ep = "summary", !.status = 200,
                                       !.text = Str("Weather summary unavailable.")]
            /\ UNCHANGED summary
    /\ UNCHANGED <<config, accounts, settings, store, now, handler, counters, call, service>>

\* the advisory service answers the summary request (answer, error or
\* timeout) and the response is sent
SummaryAnswer(r) ==
    /\ summary.pc = "advisory"
    /\ summary' = NoSummary
    /\ query' =
          IF r.st # "ok" THEN [NoQuery EXCEPT !.ep = "summary", !.status = 500]
          ELSE [NoQuery EXCEPT !.ep = "summary", !.status = 200,
                   !.text = IF Truthy(r.text) THEN JsString(r.text)
                            ELSE Str("Weather summary unavailable.")]
    /\ UNCHANGED <<config, accounts, settings, store, now, handler, counters, call, service>>

\* ------------------------------------------------------------ registration
\* bcrypt.hash(password, 10)
hash(password) == Str("$2b$10$" \o password.s)

\* the unique index on username (userSchema): is there a user with this name
DuplicateKey(coll, username) == \E i \in 1..Len(coll) : coll[i].username = username

\* User.findOne({ username })
FindOneUser(coll, username) == {i \in 1..Len(coll) : coll[i].username = username}

\* POST /register arrives in slot q: a request without username, password or
\* email is answered 400; otherwise User.findOne goes out
Register(q, b) ==
    /\ reg[q].pc \in {"idle", "done"}
    /\ reg[q].n < MaxRegister
    /\ LET r == [NoReg EXCEPT !.username = b.username, !.password = b.password,
                              !.email = b.email, !.n = reg[q].n + 1]
       IN  reg' = [reg EXCEPT ![q] =
                IF ~Truthy(b.username) \/ ~Truthy(b.password) \/ ~Truthy(b.email)
                THEN [r EXCEPT !.pc = "done", !.status = 400]
                ELSE [r EXCEPT !.pc = "find"]]
    /\ UNCHANGED <<config, summary, users, settings, store, now, handler, counters, call, service,
                   query>>

\* User.findOne answers: 409 when there is such a user; otherwise bcrypt.hash starts
FindUser(q) ==
    /\ reg[q].pc = "find"
    /\ LET exists == FindOneUser(users, reg[q].username) # {}
       IN  reg' = [reg EXCEPT ![q] =
                IF exists THEN [@ EXCEPT !.exists = TRUE, !.pc = "done", !.status = 409]
                ELSE [@ EXCEPT !.pc = "hash"]]
    /\ UNCHANGED <<config, summary, users, settings, store, now, handler, counters, call, service,
                   query>>

\* bcrypt.hash answers and save() goes out
HashPassword(q) ==
    /\ reg[q].pc = "hash"
    /\ reg' = [reg EXCEPT ![q] = [@ EXCEPT !.password = hash(@), !.pc = "save"]]
    /\ UNCHANGED <<config, summary, users, settings, store, now, handler, counters, call, service,
                   query>>

\* save() answers: the insert fails on the unique index when the username is
\* taken by now, and the catch answers 500; otherwise 201
SaveUser(q) ==
    /\ reg[q].pc = "save"
    /\ IF DuplicateKey(users, reg[q].username)
       THEN /\ reg' = [reg EXCEPT ![q] = [@ EXCEPT !.pc = "done", !.status = 500]]
            /\ UNCHANGED users
       ELSE /\ users' = Append(users, [username |-> reg[q].username,
                                       password |-> reg[q].password, email |-> reg[q].email])
            /\ reg' = [reg EXCEPT ![q] = [@ EXCEPT !.pc = "done", !.status = 201]]
    /\ UNCHANGED <<config, summary, settings, store, now, handler, counters, call, service,
                   query>>

\* --------------------------------------------------- direct applications
\* a call of a descriptor that waits for its result
DescribeCall(d, t, h) ==
    [fn |-> "describe", d |-> d, a |-> t, b |-> h, label |-> ""]

\* getWeatherDescription(a, b) of revision d returns
CallDescribe ==
    /\ call.fn = "describe" /\ call.label = ""
    /\ call' = [call EXCEPT !.label = Describe(call.d, call.a, call.b)]
    /\ UNCHANGED <<config, accounts, summary, settings, store, now, handler, counters, service, query>>

\* ---------------------------------------------------------------------- inputs
Required == {"temperature", "humidity", "mq2"}

\* {temperature: 28, humidity: 60, mq2: 150}
BaseBody == [temperature |-> Num(28), humidity |-> Num(60), mq2 |-> Num(150),
             rainfall |-> Undef, lat |-> Undef, lon |-> Undef]

\* a required field missing or null
MissingBodies ==
    {[BaseBody EXCEPT ![f] = v] : f \in Required, v \in {Undef, Null}} \cup {NoBody}

\* a required field present and not a number
NonNumericBodies == {[BaseBody EXCEPT ![f] = Str("abc")] : f \in Required}

\* the payloads of Spec
Bodies ==
    MissingBodies \cup NonNumericBodies
    \cup {BaseBody,
          [BaseBody EXCEPT !.temperature = NumStr(40, "40"), !.rainfall = Num(5)]}
    \cup (IF variant = "ip"
          THEN {[BaseBody EXCEPT !.lat = Num(185204), !.lon = Num(738567)],
                [BaseBody EXCEPT !.lat = Num(185204)]}
          ELSE {})

\* the payloads of SpecEnrich
EnrichBodies ==
    {[BaseBody EXCEPT !.temperature = t, !.mq2 = m, !.rainfall = r] :
        t \in {Num(28), Num(40)}, m \in {Num(150), Num(600)}, r \in {Undef, Num(5)}}

NomFail == [NoNom EXCEPT !.st = "fail"]
NomFull == [NoNom EXCEPT !.st = "ok", !.city = Str("Mysore"),
                         !.state = Str("KA"), !.country = Str("IN")]
\* answers of the reverse-geocoding provider: no address, a full one, partial ones
NomAnswers ==
    {NomFail, NomFull,
     [NoNom EXCEPT !.st = "ok"],
     [NoNom EXCEPT !.st = "ok", !.town = Str("Hunsur")],
     [NoNom EXCEPT !.st = "ok", !.city = Str(""), !.village = Str("Bilikere"),
                   !.state = Null, !.country = Str("")]}

WFail == [NoW EXCEPT !.st = "fail"]
WFull == [st |-> "ok", wind |-> Num(3), pressure |-> Num(1010), uv |-> Num(5),
          precip |-> Num(7)]
\* answers of the weather provider: empty, full, a zero total, non-numeric fields
WAnswers ==
    {WFail, WFull,
     [NoW EXCEPT !.st = "ok"],
     [WFull EXCEPT !.precip = Num(0)],
     [WFull EXCEPT !.wind = Str("n/a"), !.precip = Undef],
     [WFull EXCEPT !.uv = Num(0), !.precip = Str("trace")]}

AiFail == [NoAi EXCEPT !.st = "fail"]
\* a provider that never answers
NomSilent == [NoNom EXCEPT !.st = "silent"]
WSilent == [NoW EXCEPT !.st = "silent"]
AiSilent == [NoAi EXCEPT !.st = "silent"]
AiText == [st |-> "ok", text |-> Str("Light rain expected")]
\* answers of the advisory service: no text, an empty one, an empty list, a text
AiAnswers ==
    {AiFail, AiText,
     [NoAi EXCEPT !.st = "ok"],
     [st |-> "ok", text |-> Str("")],
     [st |-> "ok", text |-> EmptyArray]}

\* the draws of Math.random() in generateMockWeatherData
MockDraws == {0, 7}

LocationIds == {"mysuru", "atlantis"}
SelectIds == {"mysuru", "hassan", "atlantis"}

Descriptors == {"unified", "simple", "render"}
FnTemps == {Num(k) : k \in (0 - TempBelow)..MaxTemp}
           \cup {Undef, Null, NaN, Str("abc"), Str(""), NumStr(10, "10"), Inf(1), Inf(-1)}
FnHums == {Num(k) : k \in 0..MaxHum}
          \cup {Undef, Null, NaN, Str("abc"), NumStr(90, "90")}
\* gas indices around every hundred, and payload values that are not finite numbers
GasValues == {Num(k) : k \in {g \in 0..MaxGas : g % 100 \in {0, 1, 99}}}
             \cup {Str("abc"), Str("Infinity"), Str("-Infinity"), NumStr(500, "500")}

\* -------------------------------------------------------------- specifications
\* every payload shape, each provider answering or failing
Next ==
    \/ \E b \in Bodies : Receive(b, MaxIngest)
    \/ \E ok \in BOOLEAN : ReadSettings(ok)
    \/ \E r \in {NomFail, NomFull} : ReverseGeocode(r)
    \/ \E r \in {WFail, WFull} : FetchWeather(r)
    \/ \E r \in {AiFail, AiText} : Advisory(r)
    \/ \E ok \in BOOLEAN : Persist(ok)
    \/ \E rnd \in MockDraws : MockWeather(rnd)
    \/ \E id \in LocationIds : OverrideLocation(id, TRUE)

Spec == Init /\ [][Next]_vars

\* the override revision with the location selected and selected again between
\* and during ingestions
InitOverride == Init /\ variant = "override"

NextOverride ==
    \/ Receive(BaseBody, MaxIngest)
    \/ \E ok \in BOOLEAN : ReadSettings(ok)
    \/ ReverseGeocode(NomFail)
    \/ FetchWeather(WFull)
    \/ Advisory(AiText)
    \/ \E ok \in BOOLEAN : Persist(ok)
    \/ \E id \in SelectIds, ok \in BOOLEAN : OverrideLocation(id, ok)

SpecOverride == InitOverride /\ [][NextOverride]_vars

\* numeric payloads, every answer of every provider
NextEnrich ==
    \/ \E b \in EnrichBodies : Receive(b, MaxEnrich)
    \/ \E ok \in BOOLEAN : ReadSettings(ok)
    \/ \E r \in NomAnswers : ReverseGeocode(r)
    \/ \E r \in WAnswers : FetchWeather(r)
    \/ \E r \in AiAnswers : Advisory(r)
    \/ \E ok \in BOOLEAN : Persist(ok)
    \/ \E rnd \in MockDraws : MockWeather(rnd)

SpecEnrich == Init /\ [][NextEnrich]_vars

\* the ingestion with providers that answer, fail or never answer; a step of
\* the handler whose awaited call has ended is eventually taken
NextLive ==
    \/ \E b \in {BaseBody, [BaseBody EXCEPT !.mq2 = Undef]} : Receive(b, MaxIngest)
    \/ \E ok \in BOOLEAN : ReadSettings(ok)
    \/ \E r \in {NomFail, NomFull, NomSilent} : ReverseGeocode(r)
    \/ \E r \in {WFail, WFull, WSilent} : FetchWeather(r)
    \/ \E r \in {AiFail, AiText, AiSilent} : Advisory(r)
    \/ \E ok \in BOOLEAN : Persist(ok)
    \/ \E rnd \in MockDraws : MockWeather(rnd)

SpecLive == Init /\ [][NextLive]_vars /\ WF_vars(NextLive)

\* the descriptors applied to every pair of values of the input sets
InitFn ==
    /\ variant = "override" /\ advisoryUrl = TRUE /\ ipApi = IpFail /\ env = EnvUnset
    /\ locationCache = EmptyMap /\ lookup = NoLookups /\ resolved = <<>> /\ query = NoQuery
    /\ users = <<>> /\ reg = NoRegs /\ summary = NoSummary
    /\ settings = "" /\ store = <<>> /\ now = 0 /\ pc = "idle"
    /\ body = NoBody /\ chosen = "" /\ loc = NoLoc /\ wx = EmptyWx /\ aiWeatherDesc = Undef
    /\ promptPayload = NoPayload /\ nom = NoNom /\ w = NoW /\ ai = NoAi
    /\ db = "none" /\ calls = NoCalls /\ res = NoRes /\ nOk = 0 /\ nBad = 0 /\ nErr = 0
    /\ call \in {DescribeCall(d, t, h) : d \in Descriptors, t \in FnTemps, h \in FnHums}

NextFn == CallDescribe

SpecFn == InitFn /\ [][NextFn]_vars

\* the payloads of SpecTier
TierBodies == {[BaseBody EXCEPT !.mq2 = g] : g \in GasValues}

\* the override revision with the advisory service configured, every gas value
InitTier == Init /\ variant = "override" /\ advisoryUrl = TRUE

NextTier ==
    \/ \E b \in TierBodies : Receive(b, MaxTierIngest)
    \/ ReadSettings(TRUE)
    \/ ReverseGeocode(NomFail)
    \/ FetchWeather(WFull)
    \/ \E r \in {AiFail, AiText} : Advisory(r)
    \/ \E ok \in BOOLEAN : Persist(ok)

SpecTier == InitTier /\ [][NextTier]_vars

\* the coordinates and the city names handed to the location service
LookupCoords == {<<Num(129716), Num(775946)>>}
CityNames == {"Mysuru", "MYSURU"}

\* the location service alone, with LOCATION_LAT and LOCATION_LON unset or set
InitLoc ==
    /\ variant = "ip" /\ advisoryUrl = FALSE /\ ipApi = IpFail
    /\ env \in {EnvUnset, EnvBengaluru}
    /\ locationCache = EmptyMap /\ lookup = NoLookups /\ resolved = <<>> /\ query = NoQuery
    /\ users = <<>> /\ reg = NoRegs /\ summary = NoSummary
    /\ settings = "" /\ store = <<>> /\ now = 0 /\ pc = "idle"
    /\ body = NoBody /\ chosen = "" /\ loc = NoLoc /\ wx = EmptyWx /\ aiWeatherDesc = Undef
    /\ promptPayload = NoPayload /\ nom = NoNom /\ w = NoW /\ ai = NoAi
    /\ db = "none" /\ calls = NoCalls /\ res = NoRes /\ nOk = 0 /\ nBad = 0 /\ nErr = 0
    /\ call = NoCall

NextLoc ==
    \/ \E d \in {1, cacheExpiry - 1} : Tick(d, Horizon)
    \/ \E x \in LookupCoords : StartCoords(1, x[1], x[2])
    \/ \E r \in GeoAnswers : ReverseAnswer(1, r)
    \/ \E n \in CityNames : StartCity(1, n)
    \/ \E r \in GeoAnswers : SearchAnswer(1, r)
    \/ \E fn \in {"ip", "auto"} : StartIP(1, fn)
    \/ \E r \in {IpFail, IpRefused, IpPune} : IpAnswer(1, r)
    \/ ClearCache(1)

SpecLoc == InitLoc /\ [][NextLoc]_vars

\* what the provider answers to each caller: the callers are told apart by
\* the place they are given
RaceAnswer(c) == IF c = 1 THEN GeoMysuru ELSE GeoHamlet
\* each caller has its own spelling of the city
RaceCity(c) == IF c = 1 THEN "Mysuru" ELSE "MYSURU"

\* two callers of the service whose calls may overlap
InitRace == InitLoc /\ env = EnvUnset

NextRace ==
    \/ \E d \in {1, cacheExpiry - 1} : Tick(d, Horizon - 1)
    \/ \E c \in Callers, x \in LookupCoords : StartCoords(c, x[1], x[2])
    \/ \E c \in Callers : \E r \in {GeoFail, RaceAnswer(c)} : ReverseAnswer(c, r)
    \/ \E c \in Callers : StartCity(c, RaceCity(c))
    \/ \E c \in Callers : \E r \in {GeoFail, RaceAnswer(c)} : SearchAnswer(c, r)

SpecRace == InitRace /\ [][NextRace]_vars

\* the payloads of SpecRead
ReadBodies == {BaseBody, [BaseBody EXCEPT !.temperature = Num(41), !.humidity = Num(33)]}

\* n readings stored before the clock of the model starts, one per
\* millisecond, the last of them one millisecond before it
Seed(n) ==
    [i \in 1..n |->
        Reading(DocOverride([BaseBody EXCEPT !.temperature = Num(20 + (i % 15)),
                                             !.humidity = Num(40 + (i % 30))],
                            BengaluruDefault, WxOverride(WFail, Undef), Str("Cool")),
                i - n - 1)]

\* the sizes of the collection when the model starts: around the limit of
\* GET /sensor_data, and empty
SeedSizes == {0, HistoryLimit - 1}

\* registrations that may overlap
RegisterBodies ==
    {[username |-> Str(u), password |-> Str("pw"), email |-> Str(u \o "@farm.in")] :
        u \in {"asha", "ravi"}}
    \cup {[username |-> Str("asha"), password |-> Str("pw"), email |-> Undef]}

InitRegister == Init /\ variant = "override" /\ advisoryUrl = FALSE

NextRegister ==
    \/ \E q \in RegSlots, b \in RegisterBodies : Register(q, b)
    \/ \E q \in RegSlots : FindUser(q)
    \/ \E q \in RegSlots : HashPassword(q)
    \/ \E q \in RegSlots : SaveUser(q)

SpecRegister == InitRegister /\ [][NextRegister]_vars

\* ingestion and the read endpoints over a collection that has readings
InitRead ==
    /\ variant \in Variants
    /\ advisoryUrl \in (IF variant = "override" THEN BOOLEAN ELSE {FALSE})
    /\ ipApi = IpFail /\ env = EnvUnset
    /\ locationCache = EmptyMap /\ lookup = NoLookups /\ resolved = <<>> /\ query = NoQuery
    /\ users = <<>> /\ reg = NoRegs /\ summary = NoSummary
    /\ settings = ""
    /\ store \in (IF DbBacked THEN {Seed(n) : n \in SeedSizes} ELSE {<<>>})
    /\ now = 0 /\ pc = "idle"
    /\ body = NoBody /\ chosen = "" /\ loc = NoLoc /\ wx = EmptyWx /\ aiWeatherDesc = Undef
    /\ promptPayload = NoPayload /\ nom = NoNom /\ w = NoW /\ ai = NoAi
    /\ db = "none" /\ calls = NoCalls /\ res = NoRes /\ nOk = 0 /\ nBad = 0 /\ nErr = 0
    /\ call = NoCall

NextRead ==
    \/ Tick(cacheExpiry - 1, cacheExpiry - 1)
    \/ \E b \in ReadBodies : Receive(b, MaxReadIngest)
    \/ ReadSettings(TRUE)
    \/ ReverseGeocode(NomFail)
    \/ FetchWeather(WFull)
    \/ Advisory(AiText)
    \/ Persist(TRUE)
    \/ MockWeather(0)
    \/ \E ok \in BOOLEAN, tie \in {"first", "last"} : GetLatest(ok, tie, 0)
    \/ \E ok \in BOOLEAN, tie \in {"first", "last"} : GetRecent(ok, tie, 0)
    \/ \E ok \in BOOLEAN : GetStats(ok)
    \/ \E ok \in BOOLEAN, tie \in {"first", "last"} : WeatherSummary(ok, tie, Undef)
    \/ \E r \in {AiFail, AiText} : SummaryAnswer(r)

SpecRead == InitRead /\ [][NextRead]_vars

\* ---------------------------------------------------------------------- claims
\* what the claims call a missing, a non-numeric and a numeric required field
ClaimMissing(b) == \E f \in Required : b[f].t \in {"undefined", "null"}
ClaimNotNumeric(v) == v.t \notin {"number", "numstr", "inf"}
ClaimNonNumeric(b) == \E f \in Required : b[f].t \in {"string", "array", "nan"}
ClaimNumeric(b) == \A f \in Required : b[f].t \in {"number", "numstr"}
LastReading == store[Len(store)]

\* C1: a request with temperature, humidity or mq2 missing or null is answered
\* 400 at once: no outbound call is issued for it and the store stays as it was.
C1_MissingRejected ==
    [][(pc \in {"idle", "done"} /\ <<pc, nBad>>' # <<pc, nBad>> /\ ClaimMissing(body'))
         => (pc' = "done" /\ res'.status = 400 /\ calls' = NoCalls /\ store' = store
             /\ nBad' = nBad + 1 /\ nOk' = nOk)]_vars

\* a request without humidity was rejected while a reading was in the store
C1_Witness ==
    /\ pc = "done" /\ body.humidity = Undef /\ res.status = 400
    /\ calls = NoCalls /\ Len(store) = 1

\* C2 (as claimed): a request with a required field that is present and not a
\* number is answered 400 and no outbound call is issued for it.
C2_NonNumericRejected ==
    (pc # "idle" /\ ClaimNonNumeric(body) /\ ~ClaimMissing(body))
        => (calls = NoCalls /\ (pc = "done" => res.status = 400))

\* the location of a reading
LocationOf(r) == [f \in {"city", "state", "country", "lat", "lon"} |-> r[f]]

\* C3 (as claimed): with the reverse-geocoding, weather and advisory calls all
\* failing and a working database, {temperature: 28, humidity: 60, mq2: 150} is
\* answered with success and its record is the last of the store, described
\* "Warm", with rainfall 0 and the static default location.
C3_FallbackStaticDefault ==
    (/\ pc = "done" /\ variant \in {"override", "ip"} /\ body = BaseBody
     /\ nom.st = "fail" /\ w.st = "fail" /\ ai.st # "ok" /\ db # "fail")
        => /\ res.status = 200 /\ Len(store) >= 1 /\ res.data = LastReading
           /\ LastReading.weatherDescription = Str("Warm")
           /\ LastReading.rainfall = Num(0)
           /\ LocationOf(LastReading) = BengaluruDefault

\* C3 (amended): the same, with the location the request found configured: the
\* listed location selected by POST /scrs/override_location when the request
\* read the settings, the static default when it found none selected.
C3_FallbackComplete ==
    (/\ pc = "done" /\ variant \in {"override", "ip"} /\ body = BaseBody
     /\ nom.st = "fail" /\ w.st = "fail" /\ ai.st # "ok" /\ db # "fail")
        => /\ res.status = 200 /\ Len(store) >= 1 /\ res.data = LastReading
           /\ LastReading.weatherDescription = Str("Warm")
           /\ LastReading.rainfall = Num(0)
           /\ LocationOf(LastReading) =
                 IF chosen = "" THEN BengaluruDefault
                 ELSE [city |-> Str("Mysuru"), state |-> Str("Karnataka"),
                       country |-> Str("India"), lat |-> Num(122958), lon |-> Num(766394)]

\* the three providers failed with Mysuru selected and the record was written
C3_Witness ==
    /\ pc = "done" /\ variant = "override" /\ advisoryUrl /\ body = BaseBody
    /\ nom.st = "fail" /\ w.st = "fail" /\ ai.st = "fail"
    /\ res.status = 200 /\ LastReading.weatherDescription = Str("Warm")
    /\ chosen = "mysuru" /\ LastReading.lat = Num(122958)

\* C4 (as claimed): every reading of the store has a weatherDescription that is
\* a non-empty string.
C4_DescriptionNonEmpty ==
    \A i \in 1..Len(store) :
        store[i].weatherDescription.t = "string" /\ store[i].weatherDescription.s # ""

\* C5 (as claimed): a payload with numeric temperature, humidity and mq2 is
\* answered with success whenever the database works, whatever the providers answer.
C5_EnrichmentNeverAborts ==
    (pc = "done" /\ ClaimNumeric(body) /\ db # "fail") => res.status = 200

\* C6 (as claimed): the store holds as many readings as success responses were sent.
C6_OneRecordPerSuccess == Len(store) = nOk

\* C7: when Reading.create fails, for the database or for the document, the
\* request is answered 500, not success, and the store stays as it was.
C7_WriteFailureIsServerError ==
    [][(pc = "persist" /\ pc' = "done" /\ (db' = "fail" \/ Len(store') = Len(store)))
         => (res'.status = 500 /\ store' = store /\ nOk' = nOk /\ nErr' = nErr + 1)]_vars

\* the database failed at the write of a second reading
C7_Witness ==
    /\ pc = "done" /\ db = "fail" /\ w.st # "none" /\ res.status = 500 /\ Len(store) = 1

\* the label the rules give, first match first
ClaimLabel(t, h) ==
    CASE t < 15 -> "Cold"
      [] t >= 15 /\ t < 25 -> "Cool"
      [] t >= 25 /\ t < 35 -> "Warm"
      [] t >= 35 /\ h > 80 -> "Humid"
      [] t >= 35 /\ h <= 80 /\ h < 30 -> "Dry"
      [] OTHER -> "Pleasant"

\* C8: for a temperature and a humidity that are numbers, every revision of the
\* descriptor returns the label of the first matching rule.
C8_FirstMatchWins ==
    (call.fn = "describe" /\ call.label # "" /\ call.a.t = "number" /\ call.b.t = "number")
        => call.label = ClaimLabel(call.a.n, call.b.n)

\* describe(30, 90) returned "Warm"
C8_Witness ==
    /\ call.d = "unified" /\ call.a = Num(30) /\ call.b = Num(90) /\ call.label = "Warm"

\* C9 (as claimed): a descriptor given a temperature or a humidity that is not
\* a number returns "Unknown".
C9_NonNumericUnknown ==
    (call.fn = "describe" /\ call.label # ""
     /\ (ClaimNotNumeric(call.a) \/ ClaimNotNumeric(call.b)))
        => call.label = "Unknown"

\* the tier of the claim
ClaimTier(g) ==
    CASE g.t # "number" -> 1
      [] g.t = "number" /\ g.n < 200 -> 1
      [] g.t = "number" /\ 200 <= g.n /\ g.n < 500 -> 2
      [] g.t = "number" /\ 500 <= g.n /\ g.n < 800 -> 3
      [] OTHER -> 4

\* C10: the advisory request carries the tier of Number(mq2): 1 below 200, 2
\* below 500, 3 below 800, 4 from 800 on, 1 for NaN and the infinities; it goes
\* out with the advisory call only, and no reading and no response carries it.
C10_TierBoundaries ==
    /\ promptPayload.sent =>
          /\ promptPayload.pollution_level = ClaimTier(ToNumber(body.mq2))
          /\ calls.advisory = 1
    /\ \A i \in 1..Len(store) : "pollution_level" \notin DOMAIN store[i]
    /\ "pollution_level" \notin DOMAIN res.data

\* a reading with mq2 800 was stored after tier 4 went to the advisory service
C10_Witness ==
    /\ pc = "done" /\ body.mq2 = Num(800) /\ promptPayload.sent
    /\ promptPayload.pollution_level = 4 /\ Len(store) = 1 /\ LastReading.mq2 = Num(800)

\* 24 hours, in milliseconds
ClaimDay == 24 * 3600 * 1000

\* C11: of two calls in a row of getLocationFromCoords, or of
\* searchLocationByCity, with the same cache key, the first having fetched and
\* returned a location: the second, started less than 24 hours after the first
\* ended, issues no outbound call and returns the location the first cached
\* (one call for the two); started 24 hours after it or later, it issues an
\* outbound call of its own.
C11_CacheTtl ==
    \A i \in 1..(Len(resolved) - 1) :
        LET a == resolved[i]
            b == resolved[i + 1]
        IN  (/\ a.fn \in {"coords", "city"} /\ b.fn = a.fn /\ b.key = a.key
             /\ a.out = "return" /\ a.calls = 1)
                => IF b.t0 - a.t1 < ClaimDay
                   THEN /\ b.calls = 0 /\ b.out = "return"
                        /\ b.ret = [a.ret EXCEPT !.timestamp = Num(a.t1)]
                   ELSE b.calls = 1

\* the same coordinates were resolved twice, the second time one millisecond
\* before the entry of the first expired
C11_Witness ==
    /\ Len(resolved) = 2 /\ resolved[1].fn = "coords" /\ resolved[2].fn = "coords"
    /\ resolved[1].key = resolved[2].key /\ resolved[1].calls = 1
    /\ resolved[2].calls = 0 /\ resolved[2].t0 - resolved[1].t1 = ClaimDay - 1
    /\ resolved[2].ret.city = Str("Mysuru")

\* C12 (as claimed): getLocationFromCoords(lat, lon), its request to /reverse
\* ending with an error, a timeout or no data, returns lat and lon with city,
\* state and country "Unknown" and does not throw.
C12_CoordsFailureUnknown ==
    \A i \in 1..Len(resolved) :
        (resolved[i].fn = "coords" /\ resolved[i].ans \in {"fail", "empty"})
            => /\ resolved[i].out = "return"
               /\ resolved[i].ret.lat = resolved[i].key[2]
               /\ resolved[i].ret.lon = resolved[i].key[3]
               /\ resolved[i].ret.city = Str("Unknown")
               /\ resolved[i].ret.state = Str("Unknown")
               /\ resolved[i].ret.country = Str("Unknown")

\* the configured LOCATION_LAT and LOCATION_LON, the defaults when they are unset
ClaimConfiguredLat ==
    IF env.LOCATION_LAT = Undef THEN Num(190760) ELSE Num(env.LOCATION_LAT.n)
ClaimConfiguredLon ==
    IF env.LOCATION_LON = Undef THEN Num(728777) ELSE Num(env.LOCATION_LON.n)

\* C13 (as claimed): autoDetectLocation always returns: the location of
\* ip-api.com when that request succeeds, and, when that request and the
\* request to /reverse both fail, a location whose lat and lon are the
\* configured LOCATION_LAT and LOCATION_LON.
C13_AutoDetectConfiguredDefault ==
    \A i \in 1..Len(resolved) :
        LET e == resolved[i]
        IN  e.fn = "auto" =>
               /\ e.out = "return"
               /\ (e.calls = 1 /\ e.ans = "ok" /\ e.key = <<>>) => e.ret = PlaceFromIP(IpPune)
               /\ (e.calls = 2 /\ e.ans \in {"fail", "empty"}) =>
                      (e.ret.lat = ClaimConfiguredLat /\ e.ret.lon = ClaimConfiguredLon)

\* C14 (as claimed): a reading stored by the IP revision carries the payload's
\* lat and lon when the payload has both; without them the lat and lon
\* ip-api.com gives for the client's address when it answers with success, and
\* the configured default location's otherwise.
C14_LocationPrecedence ==
    (pc = "done" /\ variant = "ip" /\ res.status = 200) =>
        IF ~IsNullish(body.lat) /\ ~IsNullish(body.lon)
        THEN LastReading.lat = body.lat /\ LastReading.lon = body.lon
        ELSE IF IsNullish(body.lat) /\ IsNullish(body.lon) /\ ipApi.st = "ok"
        THEN LastReading.lat = ipApi.lat /\ LastReading.lon = ipApi.lon
        ELSE LastReading.lat = Num(129716) /\ LastReading.lon = Num(775946)

\* a component of an address that is there: a non-empty string
ClaimPresent(v) == v.t = "string" /\ v.s # ""
\* the place name of an address: its city, else its town, else its village
ClaimPlaceName(r) ==
    IF ClaimPresent(r.city) THEN r.city
    ELSE IF ClaimPresent(r.town) THEN r.town ELSE r.village

\* C15: the reverse-geocoding step of the ingestion leaves city, state and
\* country non-empty strings: as they were when the call failed, and, when it
\* answered, each taken from the answer if the answer has it and left as it
\* was otherwise; lat and lon stay as they were.
C15_ReverseGeocodeFrame ==
    [][(pc = "nominatim" /\ pc' = "weather") =>
          /\ \A f \in {"city", "state", "country"} : ClaimPresent(loc'[f])
          /\ nom'.st # "ok" => loc' = loc
          /\ nom'.st = "ok" =>
                /\ loc'.city = IF ClaimPresent(ClaimPlaceName(nom'))
                                THEN ClaimPlaceName(nom') ELSE loc.city
                /\ loc'.state = IF ClaimPresent(nom'.state) THEN nom'.state ELSE loc.state
                /\ loc'.country = IF ClaimPresent(nom'.country) THEN nom'.country
                                   ELSE loc.country
                /\ loc'.lat = loc.lat /\ loc'.lon = loc.lon]_vars

\* an answer with a village only refined the city and kept state and country
C15_Witness ==
    /\ pc = "weather" /\ nom.st = "ok" /\ nom.village = Str("Bilikere")
    /\ nom.state = Null /\ nom.country = Str("")
    /\ loc.city = Str("Bilikere") /\ loc.state = Str("Karnataka")
    /\ loc.country = Str("India")

\* C16 (as claimed): a reading stored after the weather call failed has the
\* rainfall of the payload, 0 when the payload has none, and windSpeed,
\* pressure and uvIndex unset or 0, in the override and in the IP revision.
C16_RainfallFromPayload ==
    (pc = "done" /\ variant \in {"override", "ip"} /\ w.st = "fail" /\ res.status = 200) =>
        /\ LastReading.rainfall =
              (IF body.rainfall.t \in {"undefined", "null"} THEN Num(0)
               ELSE Num(body.rainfall.n))
        /\ \A f \in {"windSpeed", "pressure", "uvIndex"} : LastReading[f] \in {Undef, Num(0)}

\* C17 (as claimed): a reading stored by the override revision is described by
\* the text of the advisory service when the service is configured and answered
\* with a non-empty text, and by the label of the rules for the payload's
\* temperature and humidity in every other case; without the service
\* configured no advisory call is issued.
C17_AdvisoryOrRuleLabel ==
    (pc = "done" /\ variant = "override" /\ res.status = 200) =>
        /\ ~advisoryUrl => calls.advisory = 0
        /\ LastReading.weatherDescription =
              (IF advisoryUrl /\ ai.st = "ok" /\ ClaimPresent(ai.text) THEN ai.text
               ELSE Str(ClaimLabel(ToNumber(body.temperature).n, ToNumber(body.humidity).n)))

\* the readings of a sequence, and whether their createdAt are all different
ClaimRange(s) == {s[i] : i \in 1..Len(s)}
ClaimDistinctTimes(s) == Cardinality({s[i].createdAt : i \in 1..Len(s)}) = Len(s)

\* C18: in the database-backed revisions, GET /sensor_data/latest answers 404
\* on an empty collection and otherwise a reading of the collection whose
\* createdAt none exceeds; GET /sensor_data answers the 50 newest readings (all
\* of them when there are fewer), none older before a newer one.  When the
\* readings were created at different times, T1 < T2 < T3 ..., these are the
\* last reading inserted and the readings from the last inserted backwards, in
\* strictly descending createdAt.
C18_LatestAndRecentOrder ==
    [][(DbBacked /\ query' # query /\ query'.ep \in {"latest", "recent"}
        /\ query'.status # 500) =>
          LET data == query'.data
              n == Len(store)
          IN  IF query'.ep = "latest"
              THEN IF n = 0 THEN query'.status = 404
                   ELSE /\ query'.status = 200 /\ Len(data) = 1
                        /\ data[1] \in ClaimRange(store)
                        /\ \A i \in 1..n : store[i].createdAt <= data[1].createdAt
                        /\ ClaimDistinctTimes(store) => data[1] = store[n]
              ELSE /\ query'.status = 200
                   /\ Len(data) = (IF n < 50 THEN n ELSE 50)
                   /\ \A k \in 1..(Len(data) - 1) : data[k].createdAt >= data[k + 1].createdAt
                   /\ \A k \in 1..Len(data) : data[k] \in ClaimRange(store)
                   /\ \A r \in ClaimRange(store) \ ClaimRange(data) :
                          r.createdAt <= data[Len(data)].createdAt
                   /\ ClaimDistinctTimes(store) =>
                          \A k \in 1..Len(data) :
                              /\ data[k] = store[n + 1 - k]
                              /\ k > 1 => data[k - 1].createdAt > data[k].createdAt]_vars

\* GET /sensor_data answered 50 of 51 readings created at different times,
\* the newest first
C18_Witness ==
    /\ query.ep = "recent" /\ query.status = 200 /\ Len(store) = 51
    /\ ClaimDistinctTimes(store) /\ Len(query.data) = 50
    /\ query.data[1] = store[51] /\ query.data[50] = store[2]
    /\ query.data[1].createdAt > query.data[2].createdAt

\* C19 (as claimed): GET /sensor_data/stats answers the number of readings of
\* the collection and the means of their temperature and humidity, and 0, 0
\* and 0 on an empty collection, in every revision.
C19_StatsOverStore ==
    [][(query' # query /\ query'.ep = "stats" /\ query'.status = 200) =>
          LET stats == query'.stats
              n == Len(store)
          IN  /\ stats.totalReadings = Num(n)
              /\ IF n = 0
                 THEN stats.avgTemperature = Num(0) /\ stats.avgHumidity = Num(0)
                 ELSE /\ stats.avgTemperature.num * n
                            = SumOf(store, "temperature", n) * stats.avgTemperature.den
                      /\ stats.avgHumidity.num * n
                            = SumOf(store, "humidity", n) * stats.avgHumidity.den]_vars

\* C20: every step leaves the readings of the collection where and as they
\* were, and a step in which a read endpoint answers leaves the collection as
\* it was.
C20_AppendOnly ==
    [][/\ Len(store') >= Len(store)
       /\ SubSeq(store', 1, Len(store)) = store
       /\ query' # query => store' = store]_vars

\* two readings were added to 49, the first 49 are as they were, and the
\* weather summary was answered
C20_Witness ==
    /\ Len(store) = 51 /\ SubSeq(store, 1, 49) = Seed(49)
    /\ query.ep = "summary" /\ query.status = 200 /\ nOk = 2

\* C21 (as claimed): no two readings of the collection have the same createdAt.
C21_CreatedAtDistinct ==
    \A i, j \in 1..Len(store) : i # j => store[i].createdAt # store[j].createdAt

\* C26 (as claimed): a reading stored after the weather provider answered has
\* the provider's precipitation total when the answer has one, 0 included,
\* else the rainfall of the payload, else 0, in the override and in the IP
\* revision alike.
C26_ProviderRainfallFirst ==
    (pc = "done" /\ variant \in {"override", "ip"} /\ w.st = "ok" /\ res.status = 200) =>
        LastReading.rainfall =
            (IF w.precip.t = "number" THEN w.precip
             ELSE IF body.rainfall.t = "number" THEN body.rainfall
             ELSE Num(0))

\* C28 (as claimed): once an ingestion was answered with success, and until
\* another one is received, GET /sensor_data/latest answers a reading with the
\* temperature, humidity and mq2 of the reading that response carried, in
\* every revision.
C28_ReadYourWrites ==
    [][(/\ pc = "done" /\ res.status = 200
        /\ query' # query /\ query'.ep = "latest" /\ query'.status # 500) =>
          /\ query'.status = 200
          /\ Len(query'.data) = 1
          /\ \A f \in {"temperature", "humidity", "mq2"} : query'.data[1][f] = res.data[f]]_vars

\* C29 (as claimed): a reading stored by the IP revision has its lat and lon
\* from one source: both from the payload, both from the answer of ip-api.com,
\* or both from the configured default.
C29_LatLonSameSource ==
    (pc = "done" /\ variant = "ip" /\ res.status = 200) =>
        \/ LastReading.lat = body.lat /\ LastReading.lon = body.lon
        \/ LastReading.lat = ipApi.lat /\ LastReading.lon = ipApi.lon
        \/ LastReading.lat = Num(129716) /\ LastReading.lon = Num(775946)

\* the coordinates of the listed locations, and of one of them
ClaimListedCoords == {<<Num(x.lat), Num(x.lon)>> : x \in SCRS_LOCATIONS}
ClaimCoordsOf(id) ==
    LET x == CHOOSE y \in SCRS_LOCATIONS : y.id = id IN <<Num(x.lat), Num(x.lon)>>
ClaimListed(id) == \E x \in SCRS_LOCATIONS : x.id = id

\* C30: POST /scrs/override_location with an id that is not listed is answered
\* 400 and leaves the selection as it was, and answered with success it makes
\* the id the selection; an ingestion finds the selection of the moment it
\* reads the settings and its reading has the lat and lon of that location,
\* the Bengaluru coordinates when nothing is selected; so the lat and lon of
\* every reading are those of a listed location.
C30_OverrideLocation ==
    [][(variant = "override") =>
          /\ (query' # query /\ query'.ep = "override") =>
                /\ ~ClaimListed(query'.locationId) =>
                      (query'.status = 400 /\ settings' = settings)
                /\ query'.status = 200 => settings' = query'.locationId
                /\ query'.status # 200 => settings' = settings
          /\ (pc = "settings" /\ pc' = "nominatim") => chosen' = settings
          /\ (pc = "persist" /\ pc' = "done" /\ res'.status = 200) =>
                /\ Len(store') = Len(store) + 1
                /\ <<store'[Len(store')].lat, store'[Len(store')].lon>> =
                      (IF chosen = "" THEN <<Num(129716), Num(775946)>>
                       ELSE ClaimCoordsOf(chosen))
          /\ \A i \in 1..Len(store') :
                <<store'[i].lat, store'[i].lon>> \in ClaimListedCoords]_vars

\* after Mysuru, Hassan was selected, a reading was stored with the
\* coordinates of Hassan, and an id that is not listed was rejected
C30_Witness ==
    /\ variant = "override" /\ pc = "done" /\ res.status = 200 /\ chosen = "hassan"
    /\ settings = "hassan" /\ Len(store) = 2
    /\ store[1].lat = Num(122958) /\ store[2].lat = Num(130072) /\ store[2].lon = Num(760967)
    /\ query.ep = "override" /\ query.locationId = "atlantis" /\ query.status = 400

\* the i-th ended call asked the provider and returned the place it was given
ClaimFetched(i) ==
    resolved[i].calls = 1 /\ resolved[i].ans = "ok" /\ resolved[i].out = "return"
\* the place made of the answer the provider gave to the caller of the i-th ended call
ClaimOwn(i) ==
    IF resolved[i].fn = "coords" THEN PlaceFromCoords(RaceAnswer(resolved[i].caller))
    ELSE PlaceFromCity(RaceAnswer(resolved[i].caller), "")
\* the i-th and the j-th ended call resolved the same key and the j-th started
\* before the i-th ended and ended after it
ClaimOverlap(i, j) ==
    /\ i < j /\ ClaimFetched(i) /\ ClaimFetched(j)
    /\ resolved[i].key = resolved[j].key
    /\ resolved[j].t0 <= resolved[i].t1

\* C27: when two resolutions of the same key overlap and both are answered by
\* the provider, then, until a later resolution of the key is answered, the
\* cache holds one entry for the key, the place returned by the call that
\* ended last with the time it ended as timestamp, and each call returned the
\* place made of its own answer.
C27_LastWriterWins ==
    \A i, j \in 1..Len(resolved) :
        (/\ ClaimOverlap(i, j)
         /\ \A k \in 1..Len(resolved) :
               (k > j /\ ClaimFetched(k)) => resolved[k].key # resolved[j].key) =>
            /\ resolved[j].key \in DOMAIN locationCache
            /\ Cardinality({k \in DOMAIN locationCache : k[1] = resolved[j].key[1]}) = 1
            /\ locationCache[resolved[j].key] =
                  [resolved[j].ret EXCEPT !.timestamp = Num(resolved[j].t1)]
            /\ resolved[i].ret = ClaimOwn(i)
            /\ resolved[j].ret = ClaimOwn(j)

\* two calls for the same city, spelled differently, both started on an
\* expired entry; the one that ended later was given another place, and the
\* cache holds that place
C27_Witness ==
    /\ Len(resolved) >= 3
    /\ ClaimFetched(1) /\ resolved[1].t1 = 0
    /\ ClaimOverlap(2, 3)
    /\ resolved[2].fn = "city" /\ resolved[2].key = resolved[1].key
    /\ resolved[2].t0 >= cacheExpiry
    /\ resolved[2].caller # resolved[3].caller
    /\ resolved[2].t1 < resolved[3].t1
    /\ resolved[2].ret # resolved[3].ret
    /\ locationCache[resolved[3].key].city = resolved[3].ret.city
    /\ locationCache[resolved[3].key].timestamp = Num(resolved[3].t1)

\* C25: when a call of the resolver returns a place it was given by a
\* provider (ip-api.com, /reverse or /search), and not an entry of the cache,
\* the cache holds that place under the key of the call with the time of the
\* return as timestamp.
C25_ResolutionCached ==
    [][(/\ Len(resolved') = Len(resolved) + 1
        /\ resolved'[Len(resolved')].ans = "ok"
        /\ resolved'[Len(resolved')].out = "return"
        /\ resolved'[Len(resolved')].ret.timestamp = Undef) =>
          /\ resolved'[Len(resolved')].key \in DOMAIN locationCache'
          /\ locationCache'[resolved'[Len(resolved')].key] =
                [resolved'[Len(resolved')].ret EXCEPT !.timestamp = Num(now)]]_vars

\* is there a user with this name
ClaimTaken(username) == \E i \in 1..Len(users) : users[i].username = username

\* C22: a registration that is answered while a user with its username exists
\* is answered 409 and adds no user, also when it passed the existence check
\* before the other registration of the same name was saved; and no two
\* users have the same username.
C22_ExistingUsernameConflict ==
    [][\A q \in RegSlots :
          /\ (/\ reg[q].pc \in {"find", "hash", "save"} /\ reg'[q].pc = "done"
              /\ ClaimTaken(reg[q].username)) =>
                (reg'[q].status = 409 /\ users' = users)
          /\ \A i, j \in 1..Len(users') :
                i # j => users'[i].username # users'[j].username]_vars

\* the steps of one ingestion, in the order of the handler
ClaimOrder ==
    {<<"idle", "settings">>, <<"done", "settings">>, <<"idle", "nominatim">>,
     <<"done", "nominatim">>, <<"idle", "mock">>, <<"done", "mock">>, <<"idle", "done">>,
     <<"settings", "nominatim">>, <<"settings", "done">>, <<"nominatim", "weather">>,
     <<"weather", "advisory">>, <<"weather", "persist">>, <<"advisory", "persist">>,
     <<"persist", "done">>, <<"mock", "done">>}

\* C24: the handler goes through its steps in the order validate, resolve the
\* location, reverse-geocode, weather, advisory, persist, respond; no
\* provider is called before the outcome of the one before it is known and
\* none is called twice; Reading.create is not called before every
\* enrichment call that was made has an outcome; and nothing is answered
\* before the handler is done, a success only with the reading stored.
C24_StepOrder ==
    [][/\ pc' # pc => <<pc, pc'>> \in ClaimOrder
       /\ calls'.nominatim <= 1 /\ calls'.weather <= 1 /\ calls'.advisory <= 1
       /\ pc' = "nominatim" => (calls'.weather = 0 /\ calls'.advisory = 0)
       /\ pc' = "weather" => (nom'.st # "none" /\ calls'.advisory = 0)
       /\ pc' = "advisory" => (nom'.st # "none" /\ w'.st # "none")
       /\ pc' = "persist" =>
            /\ nom'.st # "none" /\ w'.st # "none"
            /\ calls'.nominatim = 1 /\ calls'.weather = 1
            /\ calls'.advisory = (IF advisoryUrl THEN 1 ELSE 0)
            /\ calls'.advisory = 1 => ai'.st # "none"
            /\ store' = store
       /\ pc' \notin {"idle", "done"} => res' = NoRes
       /\ (pc = "persist" /\ pc' = "done" /\ res'.status = 200) =>
            store' = Append(store, res'.data)]_vars

\* an ingestion of the override revision that was answered with success after
\* reverse-geocoding failed, the weather call timed out and the advisory
\* service answered
C24_Witness ==
    /\ variant = "override" /\ advisoryUrl /\ pc = "done" /\ res.status = 200
    /\ nom.st = "fail" /\ w.st = "silent" /\ ai.st = "ok"
    /\ calls.nominatim = 1 /\ calls.weather = 1 /\ calls.advisory = 1
    /\ Len(store) = 2 /\ store[2] = res.data

\* C23: an ingestion that was received is eventually answered.
C23_EveryIngestionResponds == (pc \notin {"idle", "done"}) ~> (pc = "done")

====
